---- MODULE Spec2Model ----
(***************************************************************************)
(* fusedav-rs: the sparse block-cache file (src/blockfile/mod.rs), the     *)
(* download coordinator (src/fs/webdav_fs_file_downloader.rs), the         *)
(* streaming WebDAV client (src/webdav/mod.rs) and the read callback of    *)
(* the filesystem adapter (src/fs/webdav_fs.rs).                           *)
(*                                                                         *)
(* Three specifications share the definitions of the block file:           *)
(*   SpecBF    one cache file driven through create/open/write/read/       *)
(*             is_data_ready by a single caller;                           *)
(*   SpecCalc  calc_block_range_from applied to drawn inputs;              *)
(*   Spec      concurrent read callbacks: inode resolution, the download   *)
(*             call of the coordinator, the read of the cache file;        *)
(*   FairSpec  Spec with every enabled step eventually taken.              *)
(***************************************************************************)
EXTENDS Integers, Sequences, FiniteSets, TLC

\* ------------------------------------------------------------------ bounds
\* block size of the modelled files (the coordinator's BLOCK_SIZE, scaled)
BS == 2
\* largest logical size of a block file in SpecBF
MaxFileSize == 5
\* longest buffer handed to read / write in SpecBF
MaxBuf == 3
\* number of write calls in one behaviour of SpecBF
MaxWrites == 2
\* largest offset / size / block size drawn in SpecCalc
MaxOff == 7
MaxSize == 4
MaxBS == 3

Min(a, b) == IF a < b THEN a ELSE b
Max(a, b) == IF a < b THEN b ELSE a

\* ------------------------------------------------------------ on-disk format
\* b"FDrs", byte by byte
FILE_FORMAT_SIGNATURE == << "F", "D", "r", "s" >>
BlockInfo_size == 9
first_block_info_start_pos == 20

\* the build: arithmetic overflow panics ("debug") or wraps ("release")
Builds == {"debug", "release"}

\* BlockFileHeader::new: N = ceil(file_size / block_size) empty entries
EmptyBlockInfo == [used |-> FALSE, block_index |-> 0, usage |-> 0]

BlockFileHeader_new(file_size, block_size) ==
    [ block_info_list  |-> [i \in 1..((file_size + block_size - 1) \div block_size)
                               |-> EmptyBlockInfo],
      file_size        |-> file_size,
      block_size       |-> block_size,
      next_block_index |-> 0 ]

\* write_file_header on a file just truncated by File::create: signature,
\* sizes, the table; the data region is empty.
write_file_header(header) ==
    [ sig        |-> FILE_FORMAT_SIGNATURE,
      file_size  |-> header.file_size,
      block_size |-> header.block_size,
      tbl        |-> header.block_info_list,
      data       |-> << >> ]

\* a slip in the search: the first used entry of the table instead of the
\* entry with the largest block_index
find_last_block_index_first(block_info_list) ==
    LET used == {i \in 1..Len(block_info_list) : block_info_list[i].used}
    IN IF used = {} THEN << >>
       ELSE << block_info_list[CHOOSE i \in used : \A k \in used : i <= k].block_index >>

\* find_last_block_index: the largest block_index among used entries, as
\* << m >>, or << >> when no entry is used
find_last_block_index(block_info_list) ==
    LET used == {i \in 1..Len(block_info_list) : block_info_list[i].used}
    IN IF used = {} THEN << >>
       ELSE << CHOOSE m \in {block_info_list[i].block_index : i \in used} :
                  \A i \in used : block_info_list[i].block_index <= m >>

\* a slip in the check: only the bytes the file has are compared
validate_file_header_prefix(f) ==
    \A i \in 1..Min(Len(FILE_FORMAT_SIGNATURE), Len(f.sig)) :
       f.sig[i] = FILE_FORMAT_SIGNATURE[i]

\* validate_file_header: file.read into a zeroed 4-byte buffer (a shorter
\* file leaves the rest of the buffer zero, "NUL"), compared with the
\* signature; f.sig holds the bytes of the file at 0..3
validate_file_header(f) ==
    LET header == [i \in 1..Len(FILE_FORMAT_SIGNATURE) |->
                      IF i <= Len(f.sig) THEN f.sig[i] ELSE "NUL"]
    IN header = FILE_FORMAT_SIGNATURE

\* BlockFileHeader::from: the header as read back from the file
BlockFileHeader_from(f) ==
    LET last == find_last_block_index(f.tbl)
    IN [ block_info_list  |-> f.tbl,
         file_size        |-> f.file_size,
         block_size       |-> f.block_size,
         next_block_index |-> IF last = << >> THEN 0 ELSE last[1] + 1 ]

get_header_size(header) ==
    first_block_info_start_pos + Len(header.block_info_list) * BlockInfo_size

\* a slip in the lookup: the index is not checked against the table
get_mut_block_info_from_wrap(block_info_list, block_size, pos) ==
    [ok |-> TRUE, idx |-> (pos \div block_size) % Len(block_info_list)]

\* get_mut_block_info_from: the 0-based table index of pos, or an error
get_mut_block_info_from(block_info_list, block_size, pos) ==
    LET block_info_index == pos \div block_size
    IN IF block_info_index < Len(block_info_list)
       THEN [ok |-> TRUE, idx |-> block_info_index]
       ELSE [ok |-> FALSE, idx |-> block_info_index]

\* a slip in the allocator: the counter is not advanced
get_mut_or_allocate_block_noinc(header, pos) ==
    LET g == get_mut_block_info_from(header.block_info_list, header.block_size, pos)
    IN IF ~g.ok THEN [ok |-> FALSE, idx |-> g.idx, header |-> header]
       ELSE IF ~header.block_info_list[g.idx + 1].used
            THEN [ok |-> TRUE, idx |-> g.idx,
                  header |-> [header EXCEPT
                     !.block_info_list[g.idx + 1] =
                         [used |-> TRUE, block_index |-> header.next_block_index,
                          usage |-> 0]]]
            ELSE [ok |-> TRUE, idx |-> g.idx, header |-> header]

\* get_mut_or_allocate_block: allocate the next physical slot on first touch
get_mut_or_allocate_block(header, pos) ==
    LET g == get_mut_block_info_from(header.block_info_list, header.block_size, pos)
    IN IF ~g.ok THEN [ok |-> FALSE, idx |-> g.idx, header |-> header]
       ELSE IF ~header.block_info_list[g.idx + 1].used
            THEN [ok |-> TRUE, idx |-> g.idx,
                  header |-> [header EXCEPT
                     !.block_info_list[g.idx + 1] =
                         [used |-> TRUE, block_index |-> header.next_block_index,
                          usage |-> 0],
                     !.next_block_index = @ + 1]]
            ELSE [ok |-> TRUE, idx |-> g.idx, header |-> header]

\* a slip in the seek: the in-block cursor is dropped
try_move_cursor_nocursor(header_size, block_size, block_info, block_cursor) ==
    IF ~block_info.used THEN [ok |-> FALSE, pos |-> 0]
    ELSE [ok |-> TRUE, pos |-> header_size + block_info.block_index * block_size]

\* try_move_cursor: the absolute file position of (block, cursor), or the
\* "access not exists block" error
try_move_cursor(header_size, block_size, block_info, block_cursor) ==
    IF ~block_info.used THEN [ok |-> FALSE, pos |-> 0]
    ELSE [ok |-> TRUE,
          pos |-> header_size + block_info.block_index * block_size
                  + (block_cursor % block_size)]

\* file.write at an absolute position past the header: bytes land in the data
\* region, a gap before them reads as zeros
file_write(data, header_size, pos, bytes) ==
    LET at == pos - header_size
        newlen == Max(Len(data), at + Len(bytes))
    IN [i \in 1..newlen |->
          IF i > at /\ i <= at + Len(bytes) THEN bytes[i - at]
          ELSE IF i <= Len(data) THEN data[i] ELSE 0]

\* file.read at an absolute position: at most n bytes, none at end of file
file_read(data, header_size, pos, n) ==
    LET at == pos - header_size
    IN SubSeq(data, at + 1, Min(Len(data), at + n))

\* a slip in BlockInfo::write: the used flag is not persisted
BlockInfo_write_noflag(f, idx, block_info) ==
    [f EXCEPT !.tbl[idx + 1] = [block_info EXCEPT !.used = f.tbl[idx + 1].used]]

\* BlockInfo::write: entry idx of the on-disk table
BlockInfo_write(f, idx, block_info) == [f EXCEPT !.tbl[idx + 1] = block_info]

\* BlockInfo::reload: entry idx of the in-memory table re-read from the file
BlockInfo_reload(header, f, idx) ==
    [header EXCEPT !.block_info_list[idx + 1] = f.tbl[idx + 1]]

\* BlockFile::write: the loop over the blocks buf intersects
RECURSIVE write_loop(_, _, _, _, _)
write_loop(header, f, buf, offset, total_wrote_size) ==
    IF total_wrote_size >= Len(buf)
    THEN [ok |-> TRUE, n |-> total_wrote_size, header |-> header, file |-> f]
    ELSE LET off == offset + total_wrote_size
             block_size == header.block_size
             block_cursor == off % block_size
             a == get_mut_or_allocate_block(header, off)
         IN IF ~a.ok
            THEN [ok |-> FALSE, n |-> total_wrote_size, header |-> header, file |-> f]
            ELSE LET block_info == a.header.block_info_list[a.idx + 1]
                     mv == try_move_cursor(get_header_size(header), block_size,
                                           block_info, block_cursor)
                     end_index == Min(Len(buf),
                                      total_wrote_size + block_size - block_cursor)
                     chunk == SubSeq(buf, total_wrote_size + 1, end_index)
                     wrote_size == Len(chunk)
                     info2 == [block_info EXCEPT !.usage = @ + wrote_size]
                     h2 == [a.header EXCEPT !.block_info_list[a.idx + 1] = info2]
                     f1 == [f EXCEPT !.data =
                              file_write(f.data, get_header_size(header), mv.pos, chunk)]
                     f2 == BlockInfo_write(f1, a.idx, info2)
                 IN write_loop(h2, f2, buf, offset, total_wrote_size + wrote_size)

BlockFile_write(header, f, buf, offset) == write_loop(header, f, buf, offset, 0)

\* BlockFile::read: kind "ok" with the byte count and the bytes, "err", or
\* "hang" when file.read returns 0 bytes before the loop's bound is reached
\* (the iteration then repeats in the same state for ever)
RECURSIVE read_loop(_, _, _, _, _, _)
read_loop(header, f, buflen, offset, total_read_size, out) ==
    LET end == Min(buflen, header.file_size - offset)
    IN IF total_read_size >= end
       THEN [kind |-> "ok", n |-> total_read_size, bytes |-> out, header |-> header]
       ELSE LET off == offset + total_read_size
                block_size == header.block_size
                block_cursor == off % block_size
                g == get_mut_block_info_from(header.block_info_list, block_size, off)
            IN IF ~g.ok
               THEN [kind |-> "err", n |-> total_read_size, bytes |-> out,
                     header |-> header]
               ELSE LET h2 == BlockInfo_reload(header, f, g.idx)
                        mv == try_move_cursor(get_header_size(header), block_size,
                                              h2.block_info_list[g.idx + 1],
                                              block_cursor)
                        end_index == Min(buflen,
                                         total_read_size + block_size - block_cursor)
                        got == file_read(f.data, get_header_size(header), mv.pos,
                                         end_index - total_read_size)
                    IN IF ~mv.ok
                       THEN [kind |-> "err", n |-> total_read_size, bytes |-> out,
                             header |-> h2]
                       ELSE IF Len(got) = 0
                       THEN [kind |-> "hang", n |-> total_read_size, bytes |-> out,
                             header |-> h2]
                       ELSE read_loop(h2, f, buflen, offset,
                                      total_read_size + Len(got), out \o got)

BlockFile_read(header, f, buflen, offset) ==
    IF header.file_size < offset
    THEN [kind |-> "err", n |-> 0, bytes |-> << >>, header |-> header]
    ELSE read_loop(header, f, buflen, offset, 0, << >>)

\* a slip in the range: the size is ignored, only the block of offset is taken
calc_block_range_from_first(block_size, offset, size) ==
    << (offset \div block_size) * block_size,
       (offset \div block_size) * block_size + block_size >>

\* find_block_info_range: first and last table index of [offset, offset+size)
find_block_info_range(block_size, offset, size) ==
    LET end == IF size = 0 THEN offset ELSE offset + size - 1
    IN << offset \div block_size, end \div block_size >>

\* a slip in the range: the exclusive end is used as the last byte
calc_block_range_from_incl(block_size, offset, size) ==
    << (offset \div block_size) * block_size,
       ((offset + size) \div block_size) * block_size + block_size >>

\* calc_block_range_from: the block-aligned byte range (end exclusive)
calc_block_range_from(block_size, offset, size) ==
    LET r == find_block_info_range(block_size, offset, size)
    IN << r[1] * block_size, r[2] * block_size + block_size >>

\* a slip in is_data_ready: the answer is taken from the entries in memory,
\* which are reloaded only afterwards
is_data_ready_stale(header, f, begin, size, build) ==
    LET clip == header.file_size < begin + size
        size1 == IF clip THEN header.file_size - begin ELSE size
        n == Len(header.block_info_list)
        r == find_block_info_range(header.block_size, begin, Max(size1, 0))
    IN IF r[2] + 1 > n
       THEN [kind |-> "panic", val |-> FALSE, header |-> header]
       ELSE [kind |-> "ok",
             val |-> \A i \in r[1]..r[2] : header.block_info_list[i + 1].used,
             header |-> [header EXCEPT !.block_info_list =
                            [i \in 1..n |-> IF i - 1 >= r[1] /\ i - 1 <= r[2]
                                            THEN f.tbl[i] ELSE @[i]]]]

\* BlockFile::is_data_ready: kind "ok" with the answer, or "panic" (an
\* arithmetic overflow in a debug build, a slice range outside the table).
\* Every entry visited is reloaded from the file, up to the first unused one.
is_data_ready(header, f, begin, size, build) ==
    LET clip == header.file_size < begin + size
        underflow == clip /\ header.file_size < begin
        size1 == IF clip THEN header.file_size - begin ELSE size
        n == Len(header.block_info_list)
        \* release build: file_size - begin wraps, and begin + size - 1 wraps
        \* back to file_size - 1 (to 2^64 - 1 for an empty file)
        r == IF underflow
             THEN << begin \div header.block_size,
                     IF header.file_size >= 1
                     THEN (header.file_size - 1) \div header.block_size
                     ELSE n + 1 >>
             ELSE find_block_info_range(header.block_size, begin, size1)
        unused == {i \in r[1]..r[2] : ~f.tbl[i + 1].used}
        stop == IF unused = {} THEN r[2]
                ELSE CHOOSE i \in unused : \A j \in unused : i <= j
    IN IF underflow /\ build = "debug"
       THEN [kind |-> "panic", val |-> FALSE, header |-> header]
       ELSE IF r[1] > r[2] + 1 \/ r[2] + 1 > n
       THEN [kind |-> "panic", val |-> FALSE, header |-> header]
       ELSE [kind |-> "ok", val |-> unused = {},
             header |-> [header EXCEPT !.block_info_list =
                            [i \in 1..n |-> IF i - 1 >= r[1] /\ i - 1 <= stop
                                            THEN f.tbl[i] ELSE @[i]]]]

\* BlockFile::create and BlockFile::open: the instance (header + file handle)
BlockFile_create(file_size, block_size) ==
    [header |-> BlockFileHeader_new(file_size, block_size),
     writable |-> TRUE, reopened |-> FALSE]

BlockFile_open(f, write) ==
    [header |-> BlockFileHeader_from(f), writable |-> write, reopened |-> TRUE]

\* ------------------------------------------------------------------ state
VARIABLES
    build,      \* "debug" or "release"
    bf_file,    \* SpecBF: the cache file on disk, << >> before create
    bf_inst,    \* SpecBF: the open BlockFile instance, << >> when dropped
    content,    \* SpecBF, history: last byte written at each logical position, 0 = never
    order,      \* SpecBF, history: logical blocks in order of first write
    nwrites,    \* SpecBF: write calls made
    last,       \* SpecBF: the last read / is_data_ready call and its result
    calc,       \* SpecCalc: the inputs and the result of calc_block_range_from
    files,      \* Spec: the cache files on disk, by temp path; << >> = not created
    registry,   \* Spec: path_to_cache_map, << >> = no handle for the path
    reglock,    \* Spec: the call holding the registry mutex, 0 = free
    hlock,      \* Spec: per handle mutex, the call holding it, 0 = free
    call,       \* Spec: each read callback and its download call: position,
                \*       arguments, locals, result, reply
    cfile,      \* Spec: each call's BlockFile instance (local `file`), << >> = none
    inode_info_map, \* SpecEx: the explorer's InodeInfoMap behind the RwLock
    rwlock,     \* SpecEx: the task holding the write lock of the map, 0 = none
    task,       \* SpecEx: each lookup / list call: position, arguments, result
    listed      \* SpecEx, history: the inodes whose remote listing was fetched, in order

bfVars == << bf_file, bf_inst, content, order, nwrites, last >>
coVars == << files, registry, reglock, hlock, call, cfile >>
exVars == << inode_info_map, rwlock, task, listed >>
vars == << build, bf_file, bf_inst, content, order, nwrites, last, calc,
           files, registry, reglock, hlock, call, cfile,
           inode_info_map, rwlock, task, listed >>

\* write buffers: n consecutive byte values starting at 1 or at MaxBuf + 1,
\* and the empty buffer
Bufs == {[j \in 1..n |-> v + j - 1] : n \in 0..MaxBuf, v \in {1, MaxBuf + 1}}
\* the first bytes of files that BlockFile::create did not write: an empty
\* file, a file of two bytes, and two files with one wrong byte
ForeignHeads == { << >>, << "F", "D" >>, << "F", "D", "r", "x" >>, << "X", "D", "r", "s" >> }
FileSizes == {MaxFileSize - 1, MaxFileSize}

NoCall == [op |-> "none", a1 |-> 0, a2 |-> 0, kind |-> "none", n |-> 0,
           bytes |-> << >>, val |-> FALSE]
NoCalc == [block_size |-> 0, offset |-> 0, size |-> 0, done |-> FALSE,
           begin |-> 0, end |-> 0]

\* ------------------------------------------------- coordinator: constants
\* download calls in one behaviour
NumCalls == 2
\* longest body chunk the HTTP response delivers at once
MaxChunk == 2

Calls == 1..NumCalls
Paths == {"/a", "/b"}
\* the attribute size the adapter passes for each remote path: "/a" ends
\* inside its second block, "/b" is one whole block
RemoteSize(p) == IF p = "/a" THEN 2 * BS - 1 ELSE BS
\* the remote object's byte at position i (0-based)
RemoteByte(i) == i + 1
\* the (offset, size) windows a caller asks for: inside the first block,
\* across the first block boundary, inside the second block
Requests(p) == {r \in {<< 0, 1 >>, << BS - 1, 2 >>, << BS, 1 >>} : r[1] < RemoteSize(p)}

NoHandle == << >>
\* after: history, the calls whose download had returned when this one began;
\* open, rd, reply, data: the adapter's get_file, read and reply
NewCall == [pc |-> "idle", path |-> "", offset |-> 0, size |-> 0, handle |-> NoHandle,
            begin |-> 0, end |-> 0, soff |-> 0, issued |-> FALSE, resp |-> "none",
            ret |-> "none", after |-> {}, open |-> "none", rd |-> "none",
            reply |-> "none", data |-> << >>]

\* the metadata map of the explorer as the read callbacks find it: root is
\* inode 1, the two remote files are inodes 2 and 3
ino_info_map == [ino \in 1..3 |-> IF ino = 1 THEN "/" ELSE IF ino = 2 THEN "/a" ELSE "/b"]
\* the inode numbers the kernel passes: the files and one unknown inode
Inos == 2..4
\* InodeInfoMap::find_by_ino: << path >> or << >>
find_by_ino(ino) == IF ino \in DOMAIN ino_info_map THEN << ino_info_map[ino] >> ELSE << >>

\* the coordinator before any call (WebDAVFSFileDownloader::new)
CoIdle ==
    /\ files = [t \in Calls |-> << >>]
    /\ registry = [p \in Paths |-> NoHandle]
    /\ reglock = 0
    /\ hlock = [m \in Calls |-> 0]
    /\ call = [c \in Calls |-> NewCall]
    /\ cfile = [c \in Calls |-> << >>]

\* ---------------------------------------------------------------- explorer
NumTasks == 2
Tasks == 1..NumTasks

\* the remote tree: "/" holds the file "/a" and the empty folder "/d"; the
\* answer to a depth-1 listing starts with the listed folder itself, and an
\* entry of another kind becomes WebDAVList::Err (webdav/mod.rs line 160)
WebDAVClient_list(path) ==
    IF path = "/"
    THEN << [kind |-> "Folder", path |-> "/"], [kind |-> "Folder", path |-> "/d"],
            [kind |-> "Err", path |-> ""], [kind |-> "File", path |-> "/a"] >>
    ELSE << [kind |-> "Folder", path |-> path] >>

\* the order of String::cmp on the paths of the tree
PathRank(path) ==
    IF path = "" THEN 0 ELSE IF path = "/" THEN 1 ELSE IF path = "/a" THEN 2 ELSE 3

\* sort_webdav_list: l does not come after r
sort_webdav_list(l, r) == PathRank(l.path) <= PathRank(r.path)

\* list.sort_by(Self::sort_webdav_list): a stable insertion sort
RECURSIVE sort_by(_)
sort_by(list) ==
    IF Len(list) <= 1 THEN list
    ELSE LET rest == sort_by(SubSeq(list, 1, Len(list) - 1))
             x == list[Len(list)]
             k == Cardinality({i \in 1..Len(rest) : sort_webdav_list(rest[i], x)})
         IN SubSeq(rest, 1, k) \o << x >> \o SubSeq(rest, k + 1, Len(rest))

\* InodeInfo::file_name
file_name(info) ==
    IF info.path = "/" THEN "/"
    ELSE IF info.path = "/a" THEN "a" ELSE IF info.path = "/d" THEN "d" ELSE "?"

\* HashMap::insert
HashMap_insert(map, k, v) == [x \in DOMAIN map \cup {k} |-> IF x = k THEN v ELSE map[x]]

\* InodeInfoMap::new: the root inode 1, its own parent; no directory cached
InodeInfoMap_new ==
    [ ino_info_map      |-> [x \in {1} |-> [ino |-> 1, kind |-> "Directory", path |-> "/"]],
      ino_item_list_map |-> [x \in {} |-> << >>],
      ino_parent_map    |-> [x \in {1} |-> 1],
      next_ino_id       |-> 2 ]

\* InodeInfoMap::find_by_ino on a map value: << info >> or << >>
InodeInfoMap_find_by_ino(m, ino) ==
    IF ino \in DOMAIN m.ino_info_map THEN << m.ino_info_map[ino] >> ELSE << >>

\* InodeInfoMap::parent
InodeInfoMap_parent(m, ino) ==
    IF ino \in DOMAIN m.ino_parent_map
    THEN InodeInfoMap_find_by_ino(m, m.ino_parent_map[ino]) ELSE << >>

\* InodeInfoMap::is_cached_dir
is_cached_dir(m, ino) == ino \in DOMAIN m.ino_item_list_map

\* InodeInfoMap::childs: << the infos of the children >> or << >> (None)
childs(m, ino) ==
    IF ino \in DOMAIN m.ino_item_list_map
    THEN LET ino_item_list == m.ino_item_list_map[ino]
             present == SelectSeq(ino_item_list, LAMBDA x : x \in DOMAIN m.ino_info_map)
         IN << [i \in 1..Len(present) |-> m.ino_info_map[present[i]]] >>
    ELSE << >>

\* InodeInfoMap::find_by_path: the first child of parent with the name
find_by_path(m, parent, target) ==
    LET ino_item_list == IF parent \in DOMAIN m.ino_item_list_map
                         THEN m.ino_item_list_map[parent] ELSE << >>
        hits == SelectSeq(ino_item_list,
                          LAMBDA x : x \in DOMAIN m.ino_info_map
                                     /\ file_name(m.ino_info_map[x]) = target)
    IN IF hits = << >> THEN << >> ELSE << m.ino_info_map[hits[1]] >>

\* convert_web_dav_list_to_file_attr: the next inode number is taken for the
\* item; the map with the counter advanced, and the InodeInfo
convert_web_dav_list_to_file_attr(m, item) ==
    IF item.kind = "Err" THEN [m |-> m, info |-> << >>]
    ELSE [m |-> [m EXCEPT !.next_ino_id = @ + 1],
          info |-> << [ino |-> m.next_ino_id,
                       kind |-> IF item.kind = "File" THEN "RegularFile" ELSE "Directory",
                       path |-> item.path] >>]

\* the loop of update_cache over the sorted items
RECURSIVE update_cache_loop(_, _, _, _)
update_cache_loop(m, current_ino, list, i) ==
    IF i > Len(list) THEN m
    ELSE LET c == convert_web_dav_list_to_file_attr(m, list[i])
         IN IF c.info = << >> THEN update_cache_loop(c.m, current_ino, list, i + 1)
            ELSE LET inode_info == c.info[1]
                     ino_item_list == IF current_ino \in DOMAIN c.m.ino_item_list_map
                                      THEN c.m.ino_item_list_map[current_ino] ELSE << >>
                     m2 == [c.m EXCEPT
                              !.ino_item_list_map =
                                  HashMap_insert(@, current_ino,
                                                 Append(ino_item_list, inode_info.ino)),
                              !.ino_parent_map = HashMap_insert(@, inode_info.ino, current_ino),
                              !.ino_info_map = HashMap_insert(@, inode_info.ino, inode_info)]
                 IN update_cache_loop(m2, current_ino, list, i + 1)

\* InodeInfoMap::update_cache
update_cache(m, current_ino, list) ==
    update_cache_loop(m, current_ino,
                      sort_by(SelectSeq(list, LAMBDA x : x.kind # "Err")), 1)

NewTask == [pc |-> "idle", op |-> "none", ino |-> 0, target |-> "", res |-> "none",
            out |-> << >>]

\* the explorer before any call (WebDAVFSExplorer::new)
ExIdle ==
    /\ inode_info_map = InodeInfoMap_new
    /\ rwlock = 0
    /\ task = [t \in Tasks |-> NewTask]
    /\ listed = << >>

File == bf_file[1]
Inst == bf_inst[1]
NBlocks == Len(File.tbl)

\* ------------------------------------------------------------------ SpecBF
\* One caller: a call returns (BFReturn) before the next one is made.
BFInit ==
    /\ build = "release"
    /\ bf_file = << >>
    /\ bf_inst = << >>
    /\ content = << >>
    /\ order = << >>
    /\ nwrites = 0
    /\ last = NoCall
    /\ calc = NoCalc
    /\ CoIdle
    /\ ExIdle

Idle == last.op = "none"

\* BlockFile::create(path, file_size, block_size)
BFCreate(file_size) ==
    /\ Idle
    /\ bf_file = << >>
    /\ bf_inst' = << BlockFile_create(file_size, BS) >>
    /\ bf_file' = << write_file_header(BlockFileHeader_new(file_size, BS)) >>
    /\ content' = [i \in 1..(((file_size + BS - 1) \div BS) * BS) |-> 0]
    /\ UNCHANGED << build, order, nwrites, last, calc, coVars, exVars >>

\* some other program left a file at the path
BFForeign(head) ==
    /\ Idle
    /\ bf_file = << >>
    /\ bf_file' = << [sig |-> head, file_size |-> 0, block_size |-> 1,
                      tbl |-> << >>, data |-> << >>] >>
    /\ UNCHANGED << build, bf_inst, content, order, nwrites, last, calc, coVars, exVars >>

\* BlockFile::open(path, write): the instance, or the "Invalid file format"
\* error of validate_file_header
BFOpen(write) ==
    /\ Idle
    /\ bf_file # << >>
    /\ bf_inst = << >>
    /\ IF validate_file_header(File)
       THEN /\ bf_inst' = << BlockFile_open(File, write) >>
            /\ UNCHANGED last
       ELSE /\ last' = [NoCall EXCEPT !.op = "open", !.kind = "err"]
            /\ UNCHANGED bf_inst
    /\ UNCHANGED << build, bf_file, content, order, nwrites, calc, coVars, exVars >>

\* drop(file)
BFDrop ==
    /\ Idle
    /\ bf_inst # << >>
    /\ bf_inst' = << >>
    /\ UNCHANGED << build, bf_file, content, order, nwrites, last, calc, coVars, exVars >>

\* history of a write: the logical blocks it touches, appended on first touch
RECURSIVE FirstTouched(_, _, _, _)
FirstTouched(ord, offset, len, j) ==
    IF j >= len \/ (offset + j) \div BS >= NBlocks THEN ord
    ELSE LET b == (offset + j) \div BS
         IN FirstTouched(IF \E k \in 1..Len(ord) : ord[k] = b THEN ord
                         ELSE Append(ord, b), offset, len, j + 1)

\* BlockFile::write(buf, offset)
BFWrite(buf, offset) ==
    /\ Idle
    /\ bf_inst # << >>
    /\ Inst.writable
    /\ nwrites < MaxWrites
    /\ LET w == BlockFile_write(Inst.header, File, buf, offset)
       IN /\ bf_inst' = << [Inst EXCEPT !.header = w.header] >>
          /\ bf_file' = << w.file >>
          /\ last' = [NoCall EXCEPT !.op = "write", !.a1 = offset, !.a2 = Len(buf),
                                    !.kind = IF w.ok THEN "ok" ELSE "err", !.n = w.n]
    /\ content' = [i \in 1..Len(content) |->
                     IF i - 1 >= offset /\ i - 1 < offset + Len(buf)
                     THEN buf[i - offset] ELSE content[i]]
    /\ order' = FirstTouched(order, offset, Len(buf), 0)
    /\ nwrites' = nwrites + 1
    /\ UNCHANGED << build, calc, coVars, exVars >>

\* BlockFile::read(buf, offset) with |buf| = buflen
BFRead(buflen, offset) ==
    /\ Idle
    /\ bf_inst # << >>
    /\ LET r == BlockFile_read(Inst.header, File, buflen, offset)
       IN /\ bf_inst' = << [Inst EXCEPT !.header = r.header] >>
          /\ last' = [NoCall EXCEPT !.op = "read", !.a1 = offset, !.a2 = buflen,
                                    !.kind = r.kind, !.n = r.n, !.bytes = r.bytes]
    /\ UNCHANGED << build, bf_file, content, order, nwrites, calc, coVars, exVars >>

\* BlockFile::is_data_ready(begin, size)
BFIsDataReady(begin, size) ==
    /\ Idle
    /\ bf_inst # << >>
    /\ LET r == is_data_ready(Inst.header, File, begin, size, build)
       IN /\ bf_inst' = << [Inst EXCEPT !.header = r.header] >>
          /\ last' = [NoCall EXCEPT !.op = "is_data_ready", !.a1 = begin, !.a2 = size,
                                    !.kind = r.kind, !.val = r.val]
    /\ UNCHANGED << build, bf_file, content, order, nwrites, calc, coVars, exVars >>

\* the caller takes the result of a call that returned; a read that hangs
\* and a call that panics never return
BFReturn ==
    /\ ~Idle
    /\ last.kind \notin {"hang", "panic"}
    /\ last' = NoCall
    /\ UNCHANGED << build, bf_file, bf_inst, content, order, nwrites, calc, coVars, exVars >>

BFNext ==
    \/ \E fs \in FileSizes : BFCreate(fs)
    \/ \E head \in ForeignHeads : BFForeign(head)
    \/ \E w \in BOOLEAN : BFOpen(w)
    \/ BFDrop
    \/ \E buf \in Bufs, offset \in 0..(MaxFileSize + 1) : BFWrite(buf, offset)
    \/ \E buflen \in 1..MaxFileSize, offset \in 0..(MaxFileSize + 1) :
          BFRead(buflen, offset)
    \/ \E begin \in 0..(MaxFileSize - 1), size \in 1..MaxBuf : BFIsDataReady(begin, size)
    \/ BFReturn

SpecBF == BFInit /\ [][BFNext]_vars

\* ------------------------------------------------------- SpecBF: properties
\* every logical byte of [o, o+n) has been written by some write call
Written(o, n) == \A i \in o..(o + n - 1) : i < Len(content) /\ content[i + 1] # 0
\* the bytes last written at [o, o+n)
Expected(o, n) == [j \in 1..n |-> content[o + j]]
\* logical block b was touched by some write call
BlockWritten(b) == \E k \in 1..Len(order) : order[k] = b
\* the logical blocks that intersect [o, o+n), n >= 1, clipped to the logical size
BlocksOf(o, n) ==
    LET len == Min(n, File.file_size - o)
    IN {b \in 0..(NBlocks - 1) : len > 0 /\ b * BS < o + len /\ (b + 1) * BS > o}

\* C1 (round trip): once every byte of [0, |S|), |S| <= logical_size, has been
\* written, by write calls in any order and with ranges that may straddle block
\* boundaries, a read of [0, |S|) through the creating instance or through a
\* reopened one returns exactly the bytes written.
C1_RoundTrip ==
    (last.op = "read" /\ last.a1 = 0 /\ last.a2 <= File.file_size
        /\ Written(0, last.a2))
    => (last.kind = "ok" /\ last.n = last.a2 /\ last.bytes = Expected(0, last.a2))

\* the whole file was written in two or more writes, a later block first, and read back
C1_Witness ==
    /\ last.op = "read" /\ last.kind = "ok"
    /\ last.a1 = 0 /\ last.a2 = File.file_size
    /\ Len(order) >= 2 /\ order[1] > order[2]
    /\ nwrites >= 2

\* C2 (no stale bytes), as claimed: a read whose clipped range intersects a
\* logical block that is not used on disk returns an error.
C2_HoleReadFails ==
    (last.op = "read" /\ last.a1 <= File.file_size
        /\ \E b \in BlocksOf(last.a1, last.a2) : ~File.tbl[b + 1].used)
    => last.kind = "err"

\* C6 (persistence): through an instance obtained by open after the writer
\* was dropped, a read of a range whose bytes were all written returns the
\* bytes written, and is_data_ready is true for a range all of whose blocks
\* were written and false for a range touching a block never written.
C6_Persistence ==
    (bf_inst # << >> /\ Inst.reopened) =>
       /\ (last.op = "read" /\ last.a1 + last.a2 <= File.file_size
              /\ Written(last.a1, last.a2))
          => (last.kind = "ok" /\ last.n = last.a2
              /\ last.bytes = Expected(last.a1, last.a2))
       /\ (last.op = "is_data_ready" /\ last.a1 < File.file_size)
          => (last.kind = "ok"
              /\ last.val = (\A b \in BlocksOf(last.a1, last.a2) : BlockWritten(b)))

\* after reopening: a straddling read of written bytes, with one block still a hole
C6_Witness ==
    /\ bf_inst # << >> /\ Inst.reopened /\ ~Inst.writable
    /\ last.op = "read" /\ last.kind = "ok" /\ last.a2 >= 2
    /\ last.a1 % BS # 0
    /\ \E b \in 0..(NBlocks - 1) : ~BlockWritten(b)

\* after reopening: is_data_ready answered false for a range with a written
\* block and a hole
C6_WitnessReady ==
    /\ bf_inst # << >> /\ Inst.reopened
    /\ last.op = "is_data_ready" /\ last.kind = "ok" /\ ~last.val
    /\ \E b \in BlocksOf(last.a1, last.a2) : BlockWritten(b)

\* C7 (physical packing): with k distinct logical blocks written, the used
\* entries are exactly those blocks, their physical indices are exactly
\* 0..k-1 in order of first write, and the next physical index is k; on disk
\* and in every open instance.
Packed(tbl, k) ==
    /\ {i \in 1..Len(tbl) : tbl[i].used} = {order[j] + 1 : j \in 1..k}
    /\ \A j \in 1..k : tbl[order[j] + 1].block_index = j - 1

C7_PhysicalPacking ==
    bf_file # << >> =>
       /\ Packed(File.tbl, Len(order))
       /\ bf_inst # << >> =>
             /\ Packed(Inst.header.block_info_list, Len(order))
             /\ Inst.header.next_block_index = Len(order)

\* two blocks written, the later logical block first, by the open instance
C7_Witness ==
    /\ bf_inst # << >> /\ last.op = "write"
    /\ Len(order) >= 2 /\ order[1] > order[2]
    /\ Inst.header.next_block_index = Len(order)

\* C14 (is_data_ready), as claimed: for every begin and length, also with
\* begin at or beyond the logical size, is_data_ready returns, and returns
\* true exactly when every logical block that intersects [begin, begin+length)
\* clipped to the logical size is used on disk.
C14_ReadyIff ==
    last.op = "is_data_ready" =>
       /\ last.kind = "ok"
       /\ last.val = (\A b \in BlocksOf(last.a1, last.a2) : File.tbl[b + 1].used)

\* C15 (read bounds), as claimed: read fails when offset > logical_size, a
\* read that returns a count returns at most min(|buf|, logical_size - offset),
\* and with offset = logical_size it returns 0.
C15_ReadBounds ==
    last.op = "read" =>
       /\ last.a1 > File.file_size => last.kind = "err"
       /\ (last.a1 <= File.file_size /\ last.kind = "ok")
          => last.n <= Min(last.a2, File.file_size - last.a1)
       /\ last.a1 = File.file_size => (last.kind = "ok" /\ last.n = 0)

\* N as fixed at creation
CeilBlocks(f) == (f.file_size + f.block_size - 1) \div f.block_size

\* C16 (write bounds), as claimed: a write whose offset lies at or beyond
\* N*block_size returns an error and changes neither the table (on disk and
\* in memory) nor the next physical index; no write changes N.
C16_WriteBounds ==
    /\ [][(last.op = "none" /\ last'.op = "write" /\ last'.a1 >= NBlocks * BS)
          => (last'.kind = "err" /\ bf_file' = bf_file /\ bf_inst' = bf_inst)]_vars
    /\ [](bf_file # << >> =>
            /\ NBlocks = CeilBlocks(File)
            /\ bf_inst # << >> => Len(Inst.header.block_info_list) = CeilBlocks(File))

\* C16, amended: the same for a write of at least one byte (a write of an
\* empty buffer returns 0 at every offset).
C16_WriteBoundsNonEmpty ==
    /\ [][(last.op = "none" /\ last'.op = "write" /\ last'.a1 >= NBlocks * BS
             /\ last'.a2 >= 1)
          => (last'.kind = "err" /\ bf_file' = bf_file /\ bf_inst' = bf_inst)]_vars
    /\ [](bf_file # << >> =>
            /\ NBlocks = CeilBlocks(File)
            /\ bf_inst # << >> => Len(Inst.header.block_info_list) = CeilBlocks(File))

\* after a block was written, a write of some bytes at N*block_size or beyond
\* returned an error
C16_Witness ==
    /\ last.op = "write" /\ last.kind = "err"
    /\ last.a1 >= NBlocks * BS /\ last.a2 >= 1
    /\ Len(order) >= 1

\* C17 (format check): open on a file whose first four bytes are not "FDrs",
\* also a file of fewer than four bytes, returns the format error and no
\* BlockFile, and leaves the file as it was; open never fails on a file
\* written by create.
C17_FormatCheck ==
    /\ [][/\ (bf_file # << >> /\ bf_inst = << >> /\ bf_file' = bf_file
               /\ File.sig # << "F", "D", "r", "s" >>)
             => bf_inst' = << >>
          /\ (last.op = "none" /\ last'.op = "open")
             => /\ File.sig # << "F", "D", "r", "s" >>
                /\ last'.kind = "err"
                /\ bf_inst' = << >> /\ bf_file' = bf_file /\ content' = content
          /\ (bf_file # << >> /\ bf_inst = << >> /\ bf_inst' # << >>)
             => bf_file' = bf_file]_vars
    /\ [](last.op = "open" => content = << >>)

\* open failed on a file of two bytes that starts like the signature
C17_Witness ==
    /\ last.op = "open" /\ last.kind = "err"
    /\ File.sig = << "F", "D" >>
    /\ bf_inst = << >>

\* C24 (read of an under-filled block), as claimed: every read call returns,
\* and a read whose clipped range lies in blocks that are used returns the
\* bytes present in the cache file.
C24_ReadTerminates ==
    last.op = "read" =>
       /\ last.kind # "hang"
       /\ (last.a1 <= File.file_size
             /\ \A b \in BlocksOf(last.a1, last.a2) : File.tbl[b + 1].used)
          => last.kind = "ok"

\* the physical indices of the used entries of a table
UsedIndices(tbl) == {tbl[i].block_index : i \in {k \in 1..Len(tbl) : tbl[k].used}}

\* C26 (next physical index on open): for every file produced by create and
\* writes, the next physical index an open computes is 0 when no entry is
\* used and the largest physical index of a used entry plus 1 otherwise, which
\* is the number of used entries; an opened instance carries that index, also
\* after the writes it made, and the used entries on disk keep distinct
\* indices 0..k-1.
C26_NextIndexOnOpen ==
    (bf_file # << >> /\ validate_file_header(File)) =>
       LET idx  == UsedIndices(File.tbl)
           k    == Cardinality({i \in 1..Len(File.tbl) : File.tbl[i].used})
           next == BlockFileHeader_from(File).next_block_index
       IN /\ idx = {} => next = 0
          /\ idx # {} => (next - 1 \in idx /\ \A x \in idx : x < next)
          /\ next = k
          /\ idx = 0..(k - 1)
          /\ (bf_inst # << >> /\ Inst.reopened) => Inst.header.next_block_index = k

\* a read-only instance opened after two blocks were written, the later
\* logical block first: its next physical index is 2
C26_Witness ==
    /\ bf_file # << >> /\ bf_inst # << >>
    /\ Inst.reopened /\ ~Inst.writable
    /\ Len(order) = 2 /\ order[1] > order[2]
    /\ File.tbl[order[1] + 1].used /\ File.tbl[order[2] + 1].used
    /\ Inst.header.next_block_index = 2

\* what a read of the one logical byte j of cache file f gives: the outcome
\* and the byte
ReadAt(f, j) ==
    LET r == BlockFile_read(BlockFileHeader_from(f), f, 1, j)
    IN << r.kind, r.bytes >>
\* the step is a write call that returned Ok
WriteOk == last.op = "none" /\ last'.op = "write" /\ last'.kind = "ok"
\* the logical bytes the write call of the step wrote
WrittenRange == last'.a1..(last'.a1 + last'.a2 - 1)
\* the frame of a write on the header fields, the table and the data region:
\* signature, sizes and entry count stay, the entries of blocks outside the
\* written range stay, and every byte the file had stays unless it lies at a
\* written position of a written block's slot
FrameOnDisk ==
    /\ File'.sig = File.sig /\ File'.file_size = File.file_size
    /\ File'.block_size = File.block_size /\ Len(File'.tbl) = Len(File.tbl)
    /\ \A i \in 1..Len(File.tbl) :
          (\A j \in WrittenRange : j \div BS # i - 1) => File'.tbl[i] = File.tbl[i]
    /\ Len(File'.data) >= Len(File.data)
    /\ \A q \in 1..Len(File.data) :
          (\A j \in WrittenRange :
              q # File'.tbl[j \div BS + 1].block_index * BS + (j % BS) + 1)
          => File'.data[q] = File.data[q]

\* C27 (frame of write), as claimed: a successful write changes only the
\* entries of the blocks that intersect the written range and the bytes of
\* their slots at the written positions; the header fields, every other
\* entry, and what a read gives at every logical byte outside the written
\* range are unchanged.
C27_WriteFrame ==
    [][WriteOk =>
          /\ FrameOnDisk
          /\ \A j \in (0..(File.file_size - 1)) \ WrittenRange :
                ReadAt(File', j) = ReadAt(File, j)]_vars

\* C27 with the last part restricted to what a read could return before the
\* write: every logical byte outside the written range that a read returned
\* before the write is returned with the same value after it.
C27_WriteFrameReadable ==
    [][WriteOk =>
          /\ FrameOnDisk
          /\ \A j \in (0..(File.file_size - 1)) \ WrittenRange :
                ReadAt(File, j)[1] = "ok" => ReadAt(File', j) = ReadAt(File, j)]_vars

\* the second of two writes returned Ok, and a byte the first one wrote lies
\* outside its range, in the same block, and is still read back
C27_Witness ==
    /\ last.op = "write" /\ last.kind = "ok" /\ last.n >= 1 /\ nwrites = 2
    /\ \E j \in 0..(File.file_size - 1) :
          /\ j \notin last.a1..(last.a1 + last.a2 - 1)
          /\ j \div BS = last.a1 \div BS
          /\ content[j + 1] # 0
          /\ ReadAt(File, j) = << "ok", << content[j + 1] >> >>

\* ---------------------------------------------------------------- SpecCalc
\* calc_block_range_from on a block file of block size bs, for drawn inputs
CalcInit ==
    /\ build = "release"
    /\ bf_file = << >>
    /\ bf_inst = << >>
    /\ content = << >>
    /\ order = << >>
    /\ nwrites = 0
    /\ last = NoCall
    /\ calc \in {[NoCalc EXCEPT !.block_size = bs, !.offset = o, !.size = s] :
                    bs \in 1..MaxBS, o \in 0..MaxOff, s \in 0..MaxSize}
    /\ CoIdle
    /\ ExIdle

CalcApply ==
    /\ ~calc.done
    /\ LET r == calc_block_range_from(calc.block_size, calc.offset, calc.size)
       IN calc' = [calc EXCEPT !.done = TRUE, !.begin = r[1], !.end = r[2]]
    /\ UNCHANGED << build, bf_file, bf_inst, content, order, nwrites, last, coVars, exVars >>

CalcNext == CalcApply

SpecCalc == CalcInit /\ [][CalcNext]_vars

\* the block-aligned positions up to the first one past every drawn range
Aligned(bs) == {k * bs : k \in 0..(MaxOff + MaxSize + 1)}

\* C8 (block-aligned range): calc_block_range_from(offset, length) returns
\* begin = floor(offset/bs)*bs and end = (floor((offset+length-1)/bs)+1)*bs for
\* length >= 1, the block of offset for length 0; both ends are multiples of
\* bs, begin <= offset, offset+length <= end, and no aligned range of at least
\* one block that satisfies the same is shorter.
C8_CalcBlockRange ==
    calc.done =>
      LET bs == calc.block_size
          o == calc.offset
          n == calc.size
      IN /\ calc.begin = (o \div bs) * bs
         /\ calc.end = IF n >= 1 THEN (((o + n - 1) \div bs) + 1) * bs
                       ELSE (o \div bs) * bs + bs
         /\ calc.begin % bs = 0
         /\ calc.end % bs = 0
         /\ calc.begin <= o
         /\ o + n <= calc.end
         /\ \A b \in Aligned(bs), e \in Aligned(bs) :
               (b < e /\ b <= o /\ o + n <= e) => e - b >= calc.end - calc.begin

\* a range that starts inside one block and ends exactly on a later boundary
C8_Witness ==
    /\ calc.done /\ calc.size >= 2 /\ calc.block_size >= 2
    /\ calc.offset % calc.block_size # 0
    /\ (calc.offset + calc.size) % calc.block_size = 0
    /\ calc.end - calc.begin = 2 * calc.block_size

\* -------------------------------------------------------------------- Spec
\* WebDAVFSFileDownloader::download, one action per stretch between two
\* suspension points, and WebDAVClient::download streaming the body.
Init ==
    /\ build = "release"
    /\ bf_file = << >>
    /\ bf_inst = << >>
    /\ content = << >>
    /\ order = << >>
    /\ nwrites = 0
    /\ last = NoCall
    /\ calc = NoCalc
    /\ CoIdle
    /\ ExIdle

\* WebDAVFSFileHandle::new(temp_path): the cache-file path and a fresh mutex;
\* gen_temp_path is unique per invocation, so the call names both
WebDAVFSFileHandle_new(c) == << [real_path |-> c, mutex |-> c] >>

\* a slip in the lookup: the handle registered for the path is not found
path_to_cache_map_get_miss(map, uri_path) == NoHandle

\* path_to_cache_map.get(uri_path)
path_to_cache_map_get(map, uri_path) == map[uri_path]

\* the guard is bound to a name and lives to the end of download
handle_mutex_guard_bound(c) == c

\* `let _ = handle.mutex.lock().await;`: the guard returned by lock() is a
\* temporary bound to no name, dropped at the end of the statement; the value
\* is the holder of the mutex after the statement
handle_mutex_guard(c) == 0

Handle(c) == call[c].handle[1]
CacheFile(c) == files[Handle(c).real_path][1]
\* bytes of the requested super-range the server still has to deliver
Remaining(c) == Min(call[c].end, RemoteSize(call[c].path)) - call[c].soff

\* a slip in the early return: the registry guard outlives the call
Return_keeplock(c, ret, resp) ==
    /\ call' = [call EXCEPT ![c].pc = "done", ![c].ret = ret, ![c].resp = resp,
                            ![c].reply = IF ret = "err" THEN "ENOENT" ELSE @]
    /\ reglock' = reglock
    /\ hlock' = [m \in Calls |-> IF hlock[m] = c THEN 0 ELSE hlock[m]]
    /\ cfile' = [cfile EXCEPT ![c] = << >>]

\* download returns: the locals (guards, file) are dropped; on Err the
\* adapter replies at once (webdav_fs.rs line 102-109)
Return(c, ret, resp) ==
    /\ call' = [call EXCEPT ![c].pc = "done", ![c].ret = ret, ![c].resp = resp,
                            ![c].reply = IF ret = "err" THEN "ENOENT" ELSE @]
    /\ reglock' = IF reglock = c THEN 0 ELSE reglock
    /\ hlock' = [m \in Calls |-> IF hlock[m] = c THEN 0 ELSE hlock[m]]
    /\ cfile' = [cfile EXCEPT ![c] = << >>]

\* webdav_fs.rs line 91-95: the read callback for an inode the metadata map
\* does not hold: getattr fails, the adapter replies ENOENT
RdGetattrFail(c, ino) ==
    /\ call[c].pc = "idle"
    /\ \A b \in Calls : b < c => call[b].pc # "idle"
    /\ find_by_ino(ino) = << >>
    /\ call' = [call EXCEPT ![c].pc = "replied", ![c].reply = "ENOENT"]
    /\ UNCHANGED << build, bfVars, calc, exVars, files, registry, reglock, hlock, cfile >>

\* line 61-63: lock the registry, look the path up; calls are numbered in the
\* order in which they pass the registry lock. The read callback resolved its
\* inode to the path p (webdav_fs.rs line 91-100).
DlBegin(c, p, r) ==
    /\ call[c].pc = "idle"
    /\ \A b \in Calls : b < c => call[b].pc # "idle"
    /\ \E ino \in Inos : find_by_ino(ino) = << p >>
    /\ reglock = 0
    /\ reglock' = c
    /\ LET h == path_to_cache_map_get(registry, p)
       IN call' = [call EXCEPT ![c].pc = IF h = NoHandle THEN "create" ELSE "open",
                               ![c].path = p, ![c].offset = r[1], ![c].size = r[2],
                               ![c].handle = h,
                               ![c].after = {b \in Calls : call[b].ret # "none"}]
    /\ UNCHANGED << build, bfVars, calc, exVars, files, registry, hlock, cfile >>

\* line 66: handle.get_file_for_write()
DlOpen(c) ==
    /\ call[c].pc = "open"
    /\ validate_file_header(CacheFile(c))
    /\ cfile' = [cfile EXCEPT ![c] = << BlockFile_open(CacheFile(c), TRUE) >>]
    /\ call' = [call EXCEPT ![c].pc = "probe"]
    /\ UNCHANGED << build, bfVars, calc, exVars, files, registry, reglock, hlock >>

\* line 67-74: file.is_data_ready(offset, size); return the handle if ready
DlProbe(c) ==
    /\ call[c].pc = "probe"
    /\ LET r == is_data_ready(cfile[c][1].header, CacheFile(c),
                              call[c].offset, call[c].size, build)
       IN IF r.kind = "panic" THEN Return(c, "panic", "none")
          ELSE IF r.val THEN Return(c, "ok", "ready")
          ELSE /\ cfile' = [cfile EXCEPT ![c] = << [@[1] EXCEPT !.header = r.header] >>]
               /\ call' = [call EXCEPT ![c].pc = "lock_handle"]
               /\ UNCHANGED << reglock, hlock >>
    /\ UNCHANGED << build, bfVars, calc, exVars, files, registry >>

\* line 77-84: create the cache file at a fresh temp path, register the handle
DlCreate(c) ==
    /\ call[c].pc = "create"
    /\ LET size == RemoteSize(call[c].path)
       IN /\ files' = [files EXCEPT ![c] =
                          << write_file_header(BlockFileHeader_new(size, BS)) >>]
          /\ cfile' = [cfile EXCEPT ![c] = << BlockFile_create(size, BS) >>]
    /\ registry' = [registry EXCEPT ![call[c].path] = WebDAVFSFileHandle_new(c)]
    /\ call' = [call EXCEPT ![c].pc = "lock_handle",
                            ![c].handle = WebDAVFSFileHandle_new(c)]
    /\ UNCHANGED << build, bfVars, calc, exVars, reglock, hlock >>

\* line 88-91: lock the handle's mutex, drop the registry guard, compute the
\* block-aligned range
DlLockHandle(c) ==
    /\ call[c].pc = "lock_handle"
    /\ hlock[Handle(c).mutex] = 0
    /\ hlock' = [hlock EXCEPT ![Handle(c).mutex] = handle_mutex_guard(c)]
    /\ reglock' = 0
    /\ LET r == calc_block_range_from(cfile[c][1].header.block_size,
                                      call[c].offset, call[c].size)
       IN call' = [call EXCEPT ![c].pc = "get", ![c].begin = r[1], ![c].end = r[2]]
    /\ UNCHANGED << build, bfVars, calc, exVars, files, registry, cfile >>

\* webdav line 84-87: the range GET for [begin, begin + (end - begin)) is sent
DlGet(c) ==
    /\ call[c].pc = "get"
    /\ call' = [call EXCEPT ![c].pc = "resp", ![c].issued = TRUE]
    /\ UNCHANGED << build, bfVars, calc, exVars, files, registry, reglock, hlock, cfile >>

\* webdav line 88-104: the response: an error, no Content-Range (or a total
\* of 0), or a body to stream from begin
DlResp(c, outcome) ==
    /\ call[c].pc = "resp"
    /\ IF outcome = "err" THEN Return(c, "err", "err")
       ELSE IF outcome = "norange" THEN Return(c, "ok", "norange")
       ELSE /\ call' = [call EXCEPT ![c].pc = "stream", ![c].soff = call[c].begin]
            /\ UNCHANGED << reglock, hlock, cfile >>
    /\ UNCHANGED << build, bfVars, calc, exVars, files, registry >>

\* webdav line 106-115: the next chunk of n bytes is written at the running offset
DlChunk(c, n) ==
    /\ call[c].pc = "stream"
    /\ n <= Remaining(c)
    /\ LET chunk == [j \in 1..n |-> RemoteByte(call[c].soff + j - 1)]
           w == BlockFile_write(cfile[c][1].header, CacheFile(c), chunk, call[c].soff)
       IN /\ files' = [files EXCEPT ![Handle(c).real_path] = << w.file >>]
          /\ IF w.ok
             THEN /\ cfile' = [cfile EXCEPT ![c] = << [@[1] EXCEPT !.header = w.header] >>]
                  /\ call' = [call EXCEPT ![c].soff = @ + w.n]
                  /\ UNCHANGED << reglock, hlock >>
             ELSE Return(c, "err", "io")
    /\ UNCHANGED << build, bfVars, calc, exVars, registry >>

\* webdav line 116-118, 125: the body ends; it was short if the server
\* delivered less than the range it was asked for
DlBodyEnd(c) ==
    /\ call[c].pc = "stream"
    /\ Return(c, "ok", IF Remaining(c) = 0 THEN "full" ELSE "short")
    /\ UNCHANGED << build, bfVars, calc, exVars, files, registry >>

\* webdav line 120-122: the transport fails between two chunks
DlBodyErr(c) ==
    /\ call[c].pc = "stream"
    /\ Return(c, "err", "err")
    /\ UNCHANGED << build, bfVars, calc, exVars, files, registry >>

\* webdav_fs.rs line 111-117: file_handle.get_file(), the cache file opened
\* read-only; a local I/O error makes the adapter reply ENOENT
RdGetFile(c, outcome) ==
    /\ call[c].pc = "done"
    /\ call[c].ret = "ok"
    /\ call[c].open = "none"
    /\ IF outcome = "ok" /\ validate_file_header(CacheFile(c))
       THEN /\ cfile' = [cfile EXCEPT ![c] = << BlockFile_open(CacheFile(c), FALSE) >>]
            /\ call' = [call EXCEPT ![c].pc = "read", ![c].open = "ok"]
       ELSE /\ call' = [call EXCEPT ![c].pc = "replied", ![c].open = "err",
                                    ![c].reply = "ENOENT"]
            /\ UNCHANGED cfile
    /\ UNCHANGED << build, bfVars, calc, exVars, files, registry, reglock, hlock >>

\* webdav_fs.rs line 119-127: buf = vec![0; size]; file.read(&mut buf, offset);
\* reply.data(&buf) or reply.error(ENOENT). While file.read returns 0 bytes
\* inside the loop of BlockFile::read the loop repeats and the callback stays
\* here.
RdRead(c) ==
    /\ call[c].pc = "read"
    /\ LET r == BlockFile_read(cfile[c][1].header, CacheFile(c), call[c].size,
                               call[c].offset)
           buf == [j \in 1..call[c].size |-> IF j <= Len(r.bytes) THEN r.bytes[j] ELSE 0]
       IN /\ r.kind # "hang"
          /\ call' = [call EXCEPT ![c].pc = "replied", ![c].rd = r.kind,
                                  ![c].reply = IF r.kind = "ok" THEN "data" ELSE "ENOENT",
                                  ![c].data = IF r.kind = "ok" THEN buf ELSE << >>]
    /\ cfile' = [cfile EXCEPT ![c] = << >>]
    /\ UNCHANGED << build, bfVars, calc, exVars, files, registry, reglock, hlock >>

Next ==
    \/ \E c \in Calls, ino \in Inos : RdGetattrFail(c, ino)
    \/ \E c \in Calls, p \in Paths : \E r \in Requests(p) : DlBegin(c, p, r)
    \/ \E c \in Calls : DlOpen(c)
    \/ \E c \in Calls : DlProbe(c)
    \/ \E c \in Calls : DlCreate(c)
    \/ \E c \in Calls : DlLockHandle(c)
    \/ \E c \in Calls : DlGet(c)
    \/ \E c \in Calls, outcome \in {"err", "norange", "ok"} : DlResp(c, outcome)
    \/ \E c \in Calls, n \in 1..MaxChunk : DlChunk(c, n)
    \/ \E c \in Calls : DlBodyEnd(c)
    \/ \E c \in Calls : DlBodyErr(c)
    \/ \E c \in Calls, outcome \in {"ok", "err"} : RdGetFile(c, outcome)
    \/ \E c \in Calls : RdRead(c)

Spec == Init /\ [][Next]_vars

\* the task scheduler runs every task that can run, and every disk and HTTP
\* operation completes: a step that stays possible is eventually taken
FairSpec == Spec /\ WF_vars(Next)

\* the download calls alone (the callers do not go on to read)
DlNext ==
    \/ \E c \in Calls, p \in Paths : \E r \in Requests(p) : DlBegin(c, p, r)
    \/ \E c \in Calls : DlOpen(c)
    \/ \E c \in Calls : DlProbe(c)
    \/ \E c \in Calls : DlCreate(c)
    \/ \E c \in Calls : DlLockHandle(c)
    \/ \E c \in Calls : DlGet(c)
    \/ \E c \in Calls, outcome \in {"err", "norange", "ok"} : DlResp(c, outcome)
    \/ \E c \in Calls, n \in 1..MaxChunk : DlChunk(c, n)
    \/ \E c \in Calls : DlBodyEnd(c)
    \/ \E c \in Calls : DlBodyErr(c)

\* every disk and HTTP operation of a download call completes and the
\* scheduler runs every task that can run
FairDlSpec == Init /\ [][DlNext]_vars /\ WF_vars(DlNext)

\* ----------------------------------------------------------- Spec: properties
\* between sending the range GET and the end of the body
InFlight(c) == call[c].pc \in {"resp", "stream"}
\* the logical blocks of the requested window, clipped to the remote size
WindowBlocks(c) ==
    LET len == Min(call[c].size, RemoteSize(call[c].path) - call[c].offset)
    IN {b \in 0..((RemoteSize(call[c].path) + BS - 1) \div BS - 1) :
          len > 0 /\ b * BS < call[c].offset + len /\ (b + 1) * BS > call[c].offset}
WindowUsed(c) == \A b \in WindowBlocks(c) : CacheFile(c).tbl[b + 1].used

\* C3 (single flight), as claimed: of the download calls for one path whose
\* windows lie in the same block, exactly one sends a range GET (a second GET
\* is sent only after a fetch that failed or came back without the body), and
\* calls that returned for the same path got the same handle.
Refetchable == {"err", "io", "norange", "short"}

C3_SingleFlight ==
    \A c \in Calls, d \in Calls :
       (c # d /\ call[c].path = call[d].path) =>
          /\ (Cardinality(WindowBlocks(c)) = 1 /\ WindowBlocks(c) = WindowBlocks(d)
                /\ call[c].issued /\ call[d].issued)
             => (call[c].resp \in Refetchable \/ call[d].resp \in Refetchable)
          /\ (call[c].ret = "ok" /\ call[d].ret = "ok") => call[c].handle = call[d].handle

\* C4 (mutual exclusion per handle), as claimed: a call in flight holds the
\* mutex of its handle, and no two calls on one handle are in flight together.
C4_MutualExclusion ==
    \A c \in Calls :
       InFlight(c) =>
          /\ hlock[Handle(c).mutex] = c
          /\ \A d \in Calls \ {c} : ~(InFlight(d) /\ call[d].handle = call[c].handle)

\* C5 (postcondition of download), as claimed: whenever download has returned
\* a handle, every block of the requested window is used in the cache file.
C5_Postcondition ==
    \A c \in Calls : call[c].ret = "ok" => WindowUsed(c)

\* C5, amended: whenever download has returned a handle, either on the
\* readiness check or after a response with a non-zero Content-Range total
\* whose body delivered the whole super-range up to the remote size, every
\* block of the requested window is used in the cache file.
C5_PostconditionFetched ==
    \A c \in Calls :
       (call[c].ret = "ok" /\ call[c].resp \in {"ready", "full"}) => WindowUsed(c)

\* two calls for "/a" both streamed a whole body, one for a window across the
\* block boundary, and returned the handle
C5_Witness ==
    \E c \in Calls, d \in Calls :
       /\ c # d /\ call[c].path = "/a" /\ call[d].path = "/a"
       /\ call[c].ret = "ok" /\ call[c].resp = "full" /\ Cardinality(WindowBlocks(c)) = 2
       /\ call[d].ret = "ok" /\ call[d].resp = "full"

\* C9 (registry uniqueness and stability): a handle registered for a path is
\* never removed or replaced, and every download call that returns a handle
\* returns the one registered for its path (same cache file, same mutex).
C9_RegistryStable ==
    /\ [][\A p \in Paths : registry[p] # NoHandle => registry'[p] = registry[p]]_vars
    /\ [](\A c \in Calls : call[c].ret = "ok" => call[c].handle = registry[call[c].path])

\* a later call for a registered path returned the handle the first call made
C9_Witness ==
    \E c \in Calls, d \in Calls :
       /\ c < d /\ call[c].path = call[d].path
       /\ call[c].ret = "ok" /\ call[d].ret = "ok"
       /\ call[d].handle = WebDAVFSFileHandle_new(c)

\* C10 (path independence): the registry lock is held only before the range
\* GET is sent, and its holder never waits for a handle mutex held by a call
\* that is fetching; so the holder can always go on and release it while a
\* fetch is in flight.
C10_PathIndependence ==
    \A c \in Calls :
       /\ reglock = c => call[c].pc \in {"open", "probe", "create", "lock_handle"}
       /\ (reglock = c /\ call[c].pc = "lock_handle") =>
             LET m == Handle(c).mutex
             IN hlock[m] = 0 \/ call[hlock[m]].pc \notin {"get", "resp", "stream"}

\* a call for one path holds the registry lock while a fetch for another path
\* is in flight
C10_Witness ==
    \E c \in Calls, d \in Calls :
       /\ reglock = c /\ InFlight(d) /\ call[c].path # call[d].path

\* the calls other than c and d leave the path of c alone
OnlyTwo(c, d) == \A e \in Calls \ {c, d} : call[e].path # call[c].path
\* the logical blocks into which call c wrote body bytes
BlocksStreamed(c) ==
    {b \in 0..((RemoteSize(call[c].path) + BS - 1) \div BS - 1) :
        call[c].begin <= b * BS /\ b * BS < call[c].soff}

\* C11 (retry after failure), as claimed: when a download call failed with an
\* HTTP or network error, also after some chunks were written, the handle
\* stays registered, and the next download call for the same path and window
\* sends a range GET covering the window again and writes into the physical
\* slots the failed call had allocated.
C11_RetryRefetches ==
    \A c \in Calls, d \in Calls :
       (/\ c # d /\ OnlyTwo(c, d)
        /\ call[c].path = call[d].path
        /\ call[c].offset = call[d].offset /\ call[c].size = call[d].size
        /\ call[c].ret = "err" /\ call[c].resp = "err"
        /\ c \in call[d].after
        /\ call[d].ret # "none")
       => /\ registry[call[c].path] = call[c].handle
          /\ call[d].handle = call[c].handle
          /\ call[d].issued
          /\ call[d].begin <= call[d].offset
          /\ call[d].offset + call[d].size <= call[d].end
          /\ \A b \in BlocksStreamed(c) :
                CacheFile(c).tbl[b + 1].block_index = b - (call[c].begin \div BS)

\* C12 (cache hit): a download call that finds a handle for its path and
\* is_data_ready(offset, length) true returns that handle in the same step,
\* having sent no GET and written nothing to any cache file, and the registry
\* lock it held is free when it has returned.
C12_CacheHit ==
    /\ [][\A c \in Calls :
            (/\ call[c].pc = "probe" /\ call'[c] # call[c]
             /\ is_data_ready(cfile[c][1].header, CacheFile(c), call[c].offset,
                              call[c].size, build).val)
            => /\ call'[c].pc = "done" /\ call'[c].ret = "ok" /\ call'[c].resp = "ready"
               /\ call'[c].handle = registry[call[c].path]
               /\ call'[c].handle # NoHandle
               /\ ~call'[c].issued
               /\ files' = files /\ registry' = registry
               /\ reglock = c /\ reglock' = 0]_vars
    /\ [](\A c \in Calls : call[c].resp = "ready" => (~call[c].issued /\ reglock # c))

\* a call returned on the readiness check with the handle another call
\* registered, while the registry lock is free
C12_Witness ==
    \E c \in Calls :
       /\ call[c].resp = "ready" /\ call[c].ret = "ok" /\ ~call[c].issued
       /\ Handle(c).real_path # c
       /\ reglock = 0

\* the byte readable at logical position j of cache file f (its block is used)
LogicalByte(f, j) ==
    f.data[f.tbl[j \div f.block_size + 1].block_index * f.block_size
           + (j % f.block_size) + 1]

\* C13 (cache miss): a download call that does not return on the readiness
\* check sends the range GET once, for exactly [begin, end) with
\* begin = floor(offset/bs)*bs and end = (floor((offset+length-1)/bs)+1)*bs,
\* and writes the body chunks one after the other at a running offset that
\* starts at begin.
C13_CacheMiss ==
    /\ [](\A c \in Calls :
            /\ call[c].pc = "get" => ~call[c].issued
            /\ (call[c].ret \in {"ok", "err"} /\ call[c].resp # "ready") => call[c].issued
            /\ call[c].issued =>
                  /\ call[c].begin = (call[c].offset \div BS) * BS
                  /\ call[c].end = ((call[c].offset + call[c].size - 1) \div BS + 1) * BS
            /\ call[c].pc = "stream" => call[c].begin <= call[c].soff)
    /\ [][\A c \in Calls :
            /\ call[c].issued => (call'[c].issued /\ call'[c].pc # "get")
            /\ (call[c].pc = "resp" /\ call'[c].pc = "stream")
               => call'[c].soff = call[c].begin
            /\ (call[c].pc = "stream" /\ call'[c].soff # call[c].soff)
               => /\ call'[c].soff > call[c].soff
                  /\ \A j \in call[c].soff..(call'[c].soff - 1) :
                        /\ files'[Handle(c).real_path][1].tbl[j \div BS + 1].used
                        /\ LogicalByte(files'[Handle(c).real_path][1], j) = RemoteByte(j)
           ]_vars

\* after block 0 of "/a" was fetched by one call, a later call for a window in
\* block 1 sent one GET for [BS, 2*BS) and streamed it to the end
C13_Witness ==
    \E c \in Calls, d \in Calls :
       /\ c \in call[d].after
       /\ call[c].path = "/a" /\ call[c].resp = "full" /\ call[c].end = BS
       /\ call[d].path = "/a" /\ call[d].offset = BS
       /\ call[d].issued /\ call[d].begin = BS /\ call[d].end = 2 * BS
       /\ call[d].ret = "ok" /\ call[d].resp = "full"

\* C18 (usage monotonicity), as claimed: in every cache file the usage
\* counter of every table entry on disk never decreases, whatever instances
\* the download calls write through.
C18_UsageMonotone ==
    [][\A t \in Calls :
          files[t] # << >> =>
             \A i \in 1..Len(files[t][1].tbl) :
                files'[t][1].tbl[i].usage >= files[t][1].tbl[i].usage]_vars

\* the four steps of a read callback succeeded
AllSucceeded(c) ==
    /\ call[c].path # ""
    /\ call[c].ret = "ok"
    /\ call[c].open = "ok"
    /\ call[c].rd = "ok"
\* one of the four steps of a read callback failed
SomeFailed(c) ==
    \/ call[c].pc = "replied" /\ call[c].path = ""
    \/ call[c].ret = "err"
    \/ call[c].open = "err"
    \/ call[c].rd = "err"

\* C19 (adapter error mapping), as claimed: a read callback one of whose
\* steps (inode resolution, download, opening the cache file, the block-file
\* read) failed is answered ENOENT, data is replied only when all four
\* succeeded, a reply once given stays the only one, and every callback
\* received is answered.
C19_ErrorMapping ==
    /\ [](\A c \in Calls :
            /\ SomeFailed(c) => call[c].reply = "ENOENT"
            /\ call[c].reply = "data" => AllSucceeded(c)
            /\ call[c].reply = "ENOENT" => SomeFailed(c))
    /\ [][\A c \in Calls : call[c].reply # "none" => call'[c].reply = call[c].reply]_vars
    /\ \A c \in Calls : (call[c].pc # "idle") ~> (call[c].reply # "none")

\* the calls that created a cache file for path p
Creators(p) == {c \in Calls : call[c].path = p /\ files[c] # << >>}

\* C20 (create-once): at most one cache file is ever created for a remote
\* path, the one its registered handle names, and a call that found the
\* handle registered created no file but opened that one.
C20_CreateOnce ==
    /\ \A p \in Paths :
          /\ Cardinality(Creators(p)) <= 1
          /\ \A c \in Creators(p) : registry[p] = WebDAVFSFileHandle_new(c)
    /\ \A c \in Calls :
          (call[c].handle # NoHandle /\ Handle(c).real_path # c)
          => /\ files[c] = << >>
             /\ Handle(c).real_path \in Creators(call[c].path)
             /\ cfile[c] # << >> => cfile[c][1].reopened

\* a second call for a path went through the open of the file the first
\* call created, and fetched into it
C20_Witness ==
    \E c \in Calls, d \in Calls :
       /\ c < d /\ call[c].path = call[d].path
       /\ Creators(call[c].path) = {c}
       /\ call[d].pc = "stream" /\ call[d].soff > call[d].begin
       /\ cfile[d][1].reopened

\* C21 (idempotent readiness): the is_data_ready(off, len) call a download
\* makes, through an instance that may have been opened before other calls
\* wrote, gives the answer a second call right after it on the same instance
\* would give, and changes no cache file.
C21_IdempotentReady ==
    [][\A c \in Calls :
          (call[c].pc = "probe" /\ call'[c].pc # "probe") =>
             LET r1 == is_data_ready(cfile[c][1].header, CacheFile(c), call[c].offset,
                                     call[c].size, build)
                 r2 == is_data_ready(r1.header, CacheFile(c), call[c].offset,
                                     call[c].size, build)
             IN /\ r2.kind = r1.kind
                /\ r2.val = r1.val
                /\ (call'[c].resp = "ready") = (r1.kind = "ok" /\ r1.val)
                /\ files' = files]_vars

\* a call got the answer true while the call that created the file was still
\* streaming into it
C21_Witness ==
    \E c \in Calls, d \in Calls :
       /\ c # d /\ call[c].resp = "ready" /\ call[c].handle = call[d].handle
       /\ d \notin call[c].after
       /\ call[d].pc = "stream"

\* C22 (single owner of the writable instance), as claimed: a download call
\* that writes a chunk holds the mutex of its handle, and the table and the
\* next physical index of the instance it writes through are those on disk
\* (the instance was loaded after every other call's writes).
C22_SingleOwner ==
    [][\A c \in Calls :
          (/\ call[c].pc = "stream" /\ call'[c] # call[c]
           /\ files'[Handle(c).real_path] # files[Handle(c).real_path])
          => /\ hlock[Handle(c).mutex] = c
             /\ cfile[c][1].header.block_info_list = CacheFile(c).tbl
             /\ cfile[c][1].header.next_block_index
                   = BlockFileHeader_from(CacheFile(c)).next_block_index]_vars

\* the table indices of the used entries of a table
UsedEntries(tbl) == {i \in 1..Len(tbl) : tbl[i].used}

\* C23 (allocation invariant on disk), as claimed: in every cache file no two
\* used entries share a physical index, the indices of the used entries are
\* exactly 0..k-1, and an entry once used keeps its physical index.
C23_DiskAllocation ==
    /\ [](\A t \in Calls :
            files[t] # << >> =>
               LET tbl == files[t][1].tbl
               IN /\ \A i \in UsedEntries(tbl), j \in UsedEntries(tbl) :
                        i # j => tbl[i].block_index # tbl[j].block_index
                  /\ {tbl[i].block_index : i \in UsedEntries(tbl)}
                        = 0..(Cardinality(UsedEntries(tbl)) - 1))
    /\ [][\A t \in Calls :
            files[t] # << >> =>
               \A i \in UsedEntries(files[t][1].tbl) :
                  /\ files'[t][1].tbl[i].used
                  /\ files'[t][1].tbl[i].block_index = files[t][1].tbl[i].block_index]_vars

\* call c was aborted by a transport error after it had written body bytes
Aborted(c) ==
    call[c].ret = "err" /\ call[c].resp = "err" /\ call[c].soff > call[c].begin

\* the safety part of C25: after a download call was aborted by a network
\* error with at least one chunk written, every block it wrote into is used
\* on disk and is reported ready, a later call for the path whose window lies
\* in those blocks returns on the readiness check without a GET, and the data
\* a later read replies are the bytes of the cache file.
C25_NoCleanupSafe ==
    \A c \in Calls, d \in Calls :
       (c # d /\ Aborted(c) /\ OnlyTwo(c, d)
        /\ call[d].path = call[c].path /\ c \in call[d].after)
       => /\ \A b \in BlocksStreamed(c) :
                /\ CacheFile(c).tbl[b + 1].used
                /\ LET r == is_data_ready(BlockFileHeader_from(CacheFile(c)),
                                          CacheFile(c), b * BS, 1, build)
                   IN r.kind = "ok" /\ r.val
          /\ (WindowBlocks(d) \subseteq BlocksStreamed(c) /\ call[d].ret # "none")
             => (call[d].resp = "ready" /\ ~call[d].issued)
          /\ call[d].reply = "data"
             => \A j \in 1..call[d].size :
                   call[d].offset + j - 1 < CacheFile(d).file_size
                   => call[d].data[j] = LogicalByte(CacheFile(d), call[d].offset + j - 1)

\* C25 (no cleanup on abort), as claimed: the blocks an aborted download wrote
\* into stay used and ready, and a later read of such a block is served from
\* the cache file as it is: the read callback that got the handle replies.
C25_NoCleanup ==
    /\ []C25_NoCleanupSafe
    /\ \A c \in Calls, d \in Calls :
          (c # d /\ Aborted(c) /\ call[d].path = call[c].path
           /\ c \in call[d].after /\ call[d].pc = "read")
          ~> (call[d].pc = "replied")

\* the server answered every range GET sent for path p so far with the bytes
\* of the requested range, to the end
ServerCorrect(p) ==
    \A d \in Calls : call[d].path = p => call[d].resp \in {"none", "ready", "full"}

\* C28 (end-to-end integrity under concurrency), as claimed: with a server
\* that returns the correct bytes for every range GET, every read callback
\* that replies with data replies the remote object's bytes at
\* [offset, offset+size) within the file size, however the callbacks on the
\* file interleave.
C28_EndToEnd ==
    \A c \in Calls :
       (call[c].reply = "data" /\ ServerCorrect(call[c].path))
       => \A j \in 1..call[c].size :
             call[c].offset + j - 1 < RemoteSize(call[c].path)
             => call[c].data[j] = RemoteByte(call[c].offset + j - 1)

ExInos == 1..3
ExTargets == {"a", "d", "x"}
ExRequests ==
    {<< "lookup", ino, tg >> : ino \in ExInos, tg \in ExTargets}
       \cup {<< "list", ino, "" >> : ino \in ExInos}

\* a lookup or readdir callback spawns its task (webdav_fs.rs line 45-48, 149-151)
ExStart(t, r) ==
    /\ task[t].pc = "idle"
    /\ \A b \in Tasks : b < t => task[b].pc # "idle"
    /\ task' = [task EXCEPT ![t].pc = "check", ![t].op = r[1], ![t].ino = r[2],
                            ![t].target = r[3]]
    /\ UNCHANGED << build, bfVars, calc, coVars, inode_info_map, rwlock, listed >>

\* update_dir_cache_if_not_exists line 96-100: under the read lock, return
\* Ok if the directory is cached; the read guard is dropped
ExCheck(t) ==
    /\ task[t].pc = "check"
    /\ rwlock = 0
    /\ task' = [task EXCEPT ![t].pc = IF is_cached_dir(inode_info_map, task[t].ino)
                                      THEN "read" ELSE "wlock"]
    /\ UNCHANGED << build, bfVars, calc, coVars, inode_info_map, rwlock, listed >>

\* line 102-111: take the write lock, find the inode, send the listing
\* request; the write guard is held across the await
ExWriteLock(t) ==
    /\ task[t].pc = "wlock"
    /\ rwlock = 0
    /\ LET info == InodeInfoMap_find_by_ino(inode_info_map, task[t].ino)
       IN IF info = << >>
          THEN /\ task' = [task EXCEPT ![t].pc = "done", ![t].res = "INodeNotExists"]
               /\ UNCHANGED rwlock
          ELSE IF info[1].kind # "Directory"
          THEN /\ task' = [task EXCEPT ![t].pc = "done", ![t].res = "InvalidOperation"]
               /\ UNCHANGED rwlock
          ELSE /\ task' = [task EXCEPT ![t].pc = "listing"]
               /\ rwlock' = t
    /\ UNCHANGED << build, bfVars, calc, coVars, inode_info_map, listed >>

\* line 108-117: the listing comes back: an error, or the list, whose first
\* item is removed and the rest merged by update_cache; the write guard is
\* dropped on return
ExListResp(t, outcome) ==
    /\ task[t].pc = "listing"
    /\ rwlock = t
    /\ rwlock' = 0
    /\ IF outcome = "err"
       THEN /\ task' = [task EXCEPT ![t].pc = "done", ![t].res = "WebDAV"]
            /\ UNCHANGED << inode_info_map, listed >>
       ELSE LET info == InodeInfoMap_find_by_ino(inode_info_map, task[t].ino)[1]
                list == Tail(WebDAVClient_list(info.path))
            IN /\ inode_info_map' = update_cache(inode_info_map, task[t].ino, list)
               /\ listed' = Append(listed, task[t].ino)
               /\ task' = [task EXCEPT ![t].pc = "read"]
    /\ UNCHANGED << build, bfVars, calc, coVars >>

\* lookup line 58-62: under the read lock, find the child by name
ExLookup(t) ==
    /\ task[t].pc = "read"
    /\ task[t].op = "lookup"
    /\ rwlock = 0
    /\ LET inode_info == find_by_path(inode_info_map, task[t].ino, task[t].target)
       IN task' = [task EXCEPT ![t].pc = "done",
                               ![t].res = IF inode_info = << >> THEN "FileNotFoundInInode"
                                          ELSE "ok",
                               ![t].out = IF inode_info = << >> THEN << >>
                                          ELSE << inode_info[1].ino >>]
    /\ UNCHANGED << build, bfVars, calc, coVars, inode_info_map, rwlock, listed >>

\* list line 68-85: under the read lock, ".", ".." and the children as
\* (name, inode) pairs, or INodeNotExists when childs is None
ExList(t) ==
    /\ task[t].pc = "read"
    /\ task[t].op = "list"
    /\ rwlock = 0
    /\ LET self == InodeInfoMap_find_by_ino(inode_info_map, task[t].ino)
           par == InodeInfoMap_parent(inode_info_map, task[t].ino)
           ch == childs(inode_info_map, task[t].ino)
           result == (IF self = << >> THEN << >> ELSE << << ".", self[1].ino >> >>)
                     \o (IF par = << >> THEN << >> ELSE << << "..", par[1].ino >> >>)
       IN IF ch = << >>
          THEN task' = [task EXCEPT ![t].pc = "done", ![t].res = "INodeNotExists"]
          ELSE task' = [task EXCEPT ![t].pc = "done", ![t].res = "ok",
                                    ![t].out = result \o
                                       [i \in 1..Len(ch[1]) |->
                                          << file_name(ch[1][i]), ch[1][i].ino >>]]
    /\ UNCHANGED << build, bfVars, calc, coVars, inode_info_map, rwlock, listed >>

ExNext ==
    \/ \E t \in Tasks, r \in ExRequests : ExStart(t, r)
    \/ \E t \in Tasks : ExCheck(t)
    \/ \E t \in Tasks : ExWriteLock(t)
    \/ \E t \in Tasks, outcome \in {"ok", "err"} : ExListResp(t, outcome)
    \/ \E t \in Tasks : ExLookup(t)
    \/ \E t \in Tasks : ExList(t)

SpecEx == Init /\ [][ExNext]_vars

\* the paths of the remote entries of the directory with inode ino
RemoteChildren(ino) ==
    LET list == Tail(WebDAVClient_list(inode_info_map.ino_info_map[ino].path))
    IN {list[i].path : i \in {k \in 1..Len(list) : list[k].kind # "Err"}}

\* C30 (directory population once only), as claimed: under every interleaving
\* of lookup and list calls on a directory, the remote listing of a directory
\* is merged into the map at most once, the child list of a cached directory
\* holds each remote entry exactly once, and each remote path has exactly one
\* inode number.
C30_PopulateOnce ==
    /\ \A i \in 1..Len(listed), j \in 1..Len(listed) : listed[i] = listed[j] => i = j
    /\ \A ino \in DOMAIN inode_info_map.ino_item_list_map :
          LET items == inode_info_map.ino_item_list_map[ino]
          IN /\ \A i \in 1..Len(items), j \in 1..Len(items) :
                   inode_info_map.ino_info_map[items[i]].path
                      = inode_info_map.ino_info_map[items[j]].path => i = j
             /\ {inode_info_map.ino_info_map[items[i]].path : i \in 1..Len(items)}
                   = RemoteChildren(ino)
    /\ \A x \in DOMAIN inode_info_map.ino_info_map, y \in DOMAIN inode_info_map.ino_info_map :
          inode_info_map.ino_info_map[x].path = inode_info_map.ino_info_map[y].path
             => x = y

\* the remote listing of the directory with inode ino was fetched successfully
Listed(ino) == \E k \in 1..Len(listed) : listed[k] = ino

\* C31 (listing an existing directory succeeds), as claimed: a directory whose
\* remote listing was fetched successfully counts as cached, also when it has
\* no children; list on it returns ".", ".." and the children; and a call that
\* checks the directory after the fetch sends no further remote listing.
C31_ListSucceeds ==
    /\ [](\A k \in 1..Len(listed) : is_cached_dir(inode_info_map, listed[k]))
    /\ [][\A t \in Tasks :
            /\ (task[t].pc = "read" /\ task[t].op = "list" /\ task'[t].pc = "done")
               => /\ Listed(task[t].ino)
                  /\ task'[t].res = "ok"
                  /\ Len(task'[t].out) >= 2
                  /\ task'[t].out[1] = << ".", task[t].ino >>
                  /\ task'[t].out[2][1] = ".."
                  /\ {"/" \o task'[t].out[i][1] : i \in 3..Len(task'[t].out)}
                        = RemoteChildren(task[t].ino)
            /\ (task[t].pc = "check" /\ task'[t].pc = "wlock")
               => ~Listed(task[t].ino)]_vars

====
